---- MODULE Spec2Model ----
(***************************************************************************)
(* The streaming state machine of the siddecfp decoder element             *)
(* (src/gst-plugin/gstsiddecfp.cc): the sink-pad chain and event handlers  *)
(* that accumulate the tune and start playback, and the source-pad task    *)
(* (play_loop) that renders, stamps and pushes audio buffers.              *)
(*                                                                         *)
(* Two threads act on one decoder: the upstream streaming thread (chain,   *)
(* sink events, property changes) and the source-pad task.  The element    *)
(* takes no lock of its own, so the task's iteration is modelled in the    *)
(* steps between which the other thread can run.                           *)
(***************************************************************************)
EXTENDS Integers, Sequences, FiniteSets, TLC

VARIABLES
  tune_buffer,        \* the accumulated image: the accepted chunks, in order
  tune_len,           \* siddecfp->tune_len
  total_bytes,        \* siddecfp->total_bytes (PlaybackPosition)
  blocksize,          \* siddecfp->blocksize
  config_frequency,   \* siddecfp->config.frequency
  config_playback,    \* siddecfp->config.playback (MONO = 1, STEREO = 2)
  config_sidEmulation,\* siddecfp->config.sidEmulation: "NULL" or "builder"
  task,               \* the source pad's task: "stopped", "started", "paused"
  pc,                 \* position of the task thread inside play_loop
  out,                \* the buffer the running play_loop iteration is filling
  downstream,         \* what the source pad has pushed, in order: the
                      \* current stream (from its stream-start on) and,
                      \* before it, the last buffer of the stream before
  last,               \* the name of what the handler that ran last returned
                      \* ("none" for a void one) and the element error it
                      \* posted
  session,            \* number of sessions that reached PLAYING
  n_eos,              \* end-of-input events so far
  n_iter,             \* play_loop iterations begun so far
  live_builders,      \* backend instances created and not deleted
  kernal,             \* siddecfp->kernal: "NULL" or the image stored
  basic,              \* siddecfp->basic
  chargen,            \* siddecfp->chargen
  player_roms,        \* the images last handed to the emulator
  cycle_len,          \* bytes accepted since the last end-of-input
  conv,               \* the last call of the converter and its result
  answer,             \* the last position query and what it was answered
  sticky,             \* the stream-start event stored on the sink pad
  have_group_id,      \* siddecfp->have_group_id
  group_id,           \* siddecfp->group_id
  next_group,         \* the id gst_util_group_id_next returns next
  stream_group,       \* the group id of the stream-start pushed last
  peer,               \* the peer of the source pad and the caps it accepts
  emulation,          \* siddecfp->emulation, the backend variant to build
  filter,             \* siddecfp->filter, the stored filter flag
  builder,            \* the backend installed: its variant and filter setting
  applied,            \* the backend in the configuration the emulator holds
  finalized,          \* gst_siddecfp_finalize has run
  refcount            \* the references held on the decoder element

\* the fields of the first part of the model
core == << tune_buffer, tune_len, total_bytes, blocksize, config_frequency,
           config_playback, config_sidEmulation, task, pc, out, downstream,
           last, session, n_eos, n_iter, live_builders, player_roms >>

roms == << kernal, basic, chargen >>

group == << sticky, have_group_id, group_id, next_group, stream_group >>

build == << emulation, filter, builder >>
life == << applied, finalized, refcount >>
vars == << core, roms, cycle_len, conv, answer, group, peer, build, life >>

(***************************************************************************)
(* Program constants                                                       *)
(***************************************************************************)
DEFAULT_BLOCKSIZE == 4096
MIN_BLOCKSIZE == 1
MAX_SID_TUNE_BUF_SIZE == 8 * DEFAULT_BLOCKSIZE
GST_SECOND == 1000000000
DEFAULT_EMULATION == "RESIDFP"
MONO == 1
STEREO == 2
DEFAULT_RATE == 44100
DEFAULT_CHANNELS == 1

GST_FLOW_CUSTOM_SUCCESS == 100
GST_FLOW_OK == 0
GST_FLOW_NOT_LINKED == -1
GST_FLOW_FLUSHING == -2
GST_FLOW_EOS == -3
GST_FLOW_NOT_NEGOTIATED == -4
GST_FLOW_ERROR == -5
GST_FLOW_NOT_SUPPORTED == -6
GST_FLOW_CUSTOM_ERROR == -100

\* every result gst_pad_push can hand back to play_loop
FlowReturns ==
  { GST_FLOW_CUSTOM_SUCCESS, GST_FLOW_OK, GST_FLOW_NOT_LINKED,
    GST_FLOW_FLUSHING, GST_FLOW_EOS, GST_FLOW_NOT_NEGOTIATED, GST_FLOW_ERROR,
    GST_FLOW_NOT_SUPPORTED, GST_FLOW_CUSTOM_ERROR }

\* GST_BUFFER_OFFSET_NONE / GST_CLOCK_TIME_NONE: a field play_loop did not set
NONE == -1

(***************************************************************************)
(* Bounds of the model                                                     *)
(***************************************************************************)
MaxEos == 2         \* end-of-input events in one run
MaxIter == 2        \* play_loop iterations in one run

\* sizes of the chunks upstream pushes: empty, half the capacity, the whole
\* capacity
ChunkSizes == { 0, MAX_SID_TUNE_BUF_SIZE \div 2, MAX_SID_TUNE_BUF_SIZE }

\* the first structure of the downstream's allowed caps, or NoCaps when the
\* pad has no allowed caps; 0 stands for a field that is not a plain int
NoCaps == [format |-> "NULL", rate |-> 0, channels |-> 0]
CapsChoices ==
  { [format |-> "S16", rate |-> 0, channels |-> 0],
    [format |-> "S16", rate |-> 8000, channels |-> 2] }
    \cup { [format |-> "U8", rate |-> 8000, channels |-> 2],
           [format |-> "none", rate |-> 0, channels |-> 0], NoCaps }

\* the values the blocksize property is set to
BlocksizeChoices == { MIN_BLOCKSIZE }

SinkEventTypes == {"EOS", "SEGMENT", "STREAM_START", "OTHER"}

(***************************************************************************)
(* gst_siddecfp_src_convert                                                *)
(***************************************************************************)
\* gst_util_uint64_scale_int: floor(val * num / denom), no intermediate
\* truncation.  ScaleParts keeps val * num as q * denom + r with r < denom,
\* built from the binary digits of num, so that no product is ever formed;
\* ScaleInt hands it the smaller factor as num.
\* a carry that is dropped
Carry_dropped(q, r, denom) ==
  [q |-> q, r |-> IF r >= denom THEN r - denom ELSE r]

Carry(q, r, denom) ==
  IF r >= denom THEN [q |-> q + 1, r |-> r - denom] ELSE [q |-> q, r |-> r]

\* one binary digit more: twice the parts so far, plus val when the digit
\* is 1
ScaleDigit(half, digit, val, denom) ==
  LET twice == Carry(2 * half.q, 2 * half.r, denom)
  IN  IF digit = 0 THEN twice
      ELSE Carry(twice.q + (val \div denom), twice.r + (val % denom), denom)

RECURSIVE ScaleParts(_, _, _)
ScaleParts(val, num, denom) ==
  IF num = 0 THEN [q |-> 0, r |-> 0]
  ELSE CHOOSE parts \in { ScaleDigit(half, num % 2, val, denom) :
                            half \in {ScaleParts(val, num \div 2, denom)} } :
         TRUE

\* a scaling that divides before it multiplies
ScaleInt_dividefirst(val, num, denom) == val * (num \div denom)

ScaleInt(val, num, denom) ==
  IF val < num THEN ScaleParts(num, val, denom).q
  ELSE ScaleParts(val, num, denom).q

Failed == [ok |-> FALSE, value |-> NONE]
Converted(v) == [ok |-> TRUE, value |-> v]

\* a converter that looks at the configuration before anything else
src_convert_strict(src_format, src_value, dest_format, playback, frequency) ==
  IF playback = 0 \/ frequency = 0 THEN Failed ELSE Converted(src_value)

src_convert(src_format, src_value, dest_format, playback, frequency) ==
  LET bytes_per_sample == 2 * playback
      byterate == bytes_per_sample * frequency
  IN  IF src_format = dest_format THEN Converted(src_value)
      ELSE CASE src_format = "BYTES" /\ dest_format = "DEFAULT" ->
                  IF bytes_per_sample = 0 THEN Failed
                  ELSE Converted(src_value \div bytes_per_sample)
             [] src_format = "BYTES" /\ dest_format = "TIME" ->
                  IF byterate = 0 THEN Failed
                  ELSE Converted(ScaleInt(src_value, GST_SECOND, byterate))
             [] src_format = "DEFAULT" /\ dest_format = "BYTES" ->
                  Converted(src_value * bytes_per_sample)
             [] src_format = "DEFAULT" /\ dest_format = "TIME" ->
                  IF frequency = 0 THEN Failed
                  ELSE Converted(ScaleInt(src_value, GST_SECOND, frequency))
             [] src_format = "TIME" /\ dest_format = "BYTES" ->
                  Converted(ScaleInt(src_value, bytes_per_sample * frequency,
                                     GST_SECOND))
             [] src_format = "TIME" /\ dest_format = "DEFAULT" ->
                  Converted(ScaleInt(src_value, frequency, GST_SECOND))
             [] OTHER -> Failed

\* the formats asked for; "PERCENT" stands for every format the converter
\* does not know
ConvFormats == {"BYTES", "DEFAULT", "TIME", "PERCENT"}

\* the conversion against the decoder's current configuration
Convert(value, dest_format) ==
  src_convert("BYTES", value, dest_format, config_playback, config_frequency)

(***************************************************************************)
(* Init: the decoder after gst_siddecfp_init                               *)
(***************************************************************************)
NoBuffer ==
  [size |-> 0, play_bytes |-> 0, offset |-> NONE, timestamp |-> NONE,
   offset_end |-> NONE, duration |-> NONE, time |-> 0, sess |-> 0]

Returned(ret, error) == [ret |-> ret, error |-> error]

\* the emulator before setKernal, setBasic or setChargen was called
NoRoms == [kernal |-> "unset", basic |-> "unset", chargen |-> "unset"]

\* no conversion was asked for yet
NoCall == [src_format |-> "none", src_value |-> 0, dest_format |-> "none",
           playback |-> 0, frequency |-> 0, ok |-> FALSE, value |-> NONE,
           back |-> Failed]

\* no stream-start event has reached the sink pad
NoStreamStart == [present |-> FALSE, group |-> NONE]

\* no backend is installed
NoBuilder == [variant |-> "none", filter |-> FALSE]

\* the source pad is not linked
NoPeer == [linked |-> FALSE, caps |-> << >>]

\* no position query was made yet
NoQuery == [format |-> "none", res |-> FALSE, position |-> NONE]

Init ==
  /\ tune_buffer = << >>
  /\ tune_len = 0
  /\ total_bytes = 0
  /\ blocksize = DEFAULT_BLOCKSIZE
  /\ config_frequency = DEFAULT_RATE      \* player->config (): a positive rate,
  /\ config_playback = MONO               \* mono, no backend
  /\ config_sidEmulation = "NULL"
  /\ task = "stopped"
  /\ pc = "idle"
  /\ out = NoBuffer
  /\ downstream = << >>
  /\ last = Returned("none", "none")
  /\ session = 0
  /\ n_eos = 0
  /\ n_iter = 0
  /\ live_builders = 0
  /\ kernal = "NULL"
  /\ basic = "NULL"
  /\ chargen = "NULL"
  /\ player_roms = NoRoms
  /\ cycle_len = 0
  /\ conv = NoCall
  /\ answer = NoQuery
  /\ sticky = NoStreamStart
  /\ have_group_id = FALSE
  /\ group_id = NONE                      \* G_MAXUINT
  /\ next_group = 1
  /\ stream_group = NONE
  /\ peer = NoPeer
  /\ emulation = DEFAULT_EMULATION
  /\ filter = FALSE                      \* never assigned: zero-filled
  /\ builder = NoBuilder
  /\ applied = "none"                    \* player->config () of a new player
  /\ finalized = FALSE
  /\ refcount = 1                        \* the owner's reference

(***************************************************************************)
(* gst_siddecfp_chain: one chunk pushed by upstream                        *)
(***************************************************************************)
\* the capacity test of chain
ChainAccepts_offbyone(len, size) == ~(len + size >= MAX_SID_TUNE_BUF_SIZE)

ChainAccepts(len, size) == ~(len + size > MAX_SID_TUNE_BUF_SIZE)

\* the image after gst_buffer_extract has copied the chunk behind the
\* bytes already held; the image is kept as the sizes of its chunks
Extract(buf, size) == IF size = 0 THEN buf ELSE Append(buf, size)

Chain(size) ==
  /\ IF ChainAccepts(tune_len, size)
     THEN /\ tune_buffer' = Extract(tune_buffer, size)
          /\ tune_len' = tune_len + size
          /\ last' = Returned("GST_FLOW_OK", "none")
     ELSE /\ last' = Returned("GST_FLOW_ERROR", "overflow")
          /\ UNCHANGED << tune_buffer, tune_len >>
  /\ UNCHANGED << total_bytes, blocksize, config_frequency, config_playback,
                  config_sidEmulation, task, pc, out, downstream, session,
                  n_eos, n_iter, live_builders, player_roms >>

(***************************************************************************)
(* siddecfp_negotiate                                                      *)
(***************************************************************************)
\* a negotiation that takes whatever format downstream allows
NegotiateOk_anyformat(caps) == caps # NoCaps

\* negotiation succeeds when there are allowed caps and their first
\* structure names the S16 format
NegotiateOk(caps) == caps # NoCaps /\ caps.format = "S16"

\* a negotiation that keeps the rate it had when downstream fixes none
NegotiatedRate_sticky(caps) ==
  IF caps.rate = 0 THEN config_frequency ELSE caps.rate

NegotiatedRate(caps) == IF caps.rate = 0 THEN DEFAULT_RATE ELSE caps.rate

NegotiatedPlayback(caps) ==
  LET channels == IF caps.channels = 0 THEN DEFAULT_CHANNELS ELSE caps.channels
  IN  IF channels = 1 THEN MONO ELSE STEREO

\* the events a successful negotiation pushes on the source pad
NegotiateEvents_capsfirst(caps) ==
  << [k |-> "caps", format |-> "S16", rate |-> NegotiatedRate(caps),
      channels |-> NegotiatedPlayback(caps)],
     [k |-> "stream-start"] >>

NegotiateEvents(caps) ==
  << [k |-> "stream-start"],
     [k |-> "caps", format |-> "S16", rate |-> NegotiatedRate(caps),
      channels |-> NegotiatedPlayback(caps)] >>

\* the last buffer pushed so far, if any: what is kept of the stream that a
\* stream-start ends
LastBuffer(log) ==
  LET idx == { i \in 1..Len(log) : log[i].k = "buffer" }
  IN  IF idx = {} THEN << >>
      ELSE << log[CHOOSE i \in idx : \A j \in idx : j <= i] >>

(***************************************************************************)
(* start_play_tune, run by gst_siddecfp_sink_event on end-of-input         *)
(***************************************************************************)
\* the sink events that start playback
StartsPlay_anyevent(type) == type \in {"EOS", "SEGMENT"}

StartsPlay(type) == type = "EOS"

\* the step of start_play_tune that fails, "none" when all succeed; the
\* outcomes of the tune parser, the emulator and the backend are inputs
FailingStep_nogate(selectOk, loadOk, caps, builderOk) ==
  IF ~NegotiateOk(caps) THEN "could_not_negotiate" ELSE "none"

FailingStep(selectOk, loadOk, caps, builderOk) ==
  IF ~selectOk THEN "could_not_select_song"
  ELSE IF ~loadOk THEN "could_not_load"
  ELSE IF ~NegotiateOk(caps) THEN "could_not_negotiate"
  ELSE IF ~builderOk THEN "could_not_create_builder"
  ELSE "none"

\* a negotiation that runs whatever the steps before it returned
Negotiated_ungated(step) == TRUE

Negotiated(step) == step \in {"could_not_create_builder", "none"}

\* what start_play_tune pushes after the backend is built: the segment
\* before the task starts, the tags after
StartEvents(sess) == << [k |-> "segment", sess |-> sess], [k |-> "tag"] >>

\* total_bytes when the task is started
StartPosition(old) == 0

\* create_builder deletes the backend installed and creates a new one; the
\* new one stays allocated whether or not it turns out valid
Rebuilt(live, installed) ==
  (IF installed = "builder" THEN live - 1 ELSE live) + 1

\* create_builder hands each stored image to the emulator
SetRoms(handed) ==
  [kernal |-> IF kernal # "NULL" THEN kernal ELSE handed.kernal,
   basic |-> IF basic # "NULL" THEN basic ELSE handed.basic,
   chargen |-> IF chargen # "NULL" THEN chargen ELSE handed.chargen]

start_play_tune(selectOk, loadOk, caps, builderOk) ==
  LET step == FailingStep(selectOk, loadOk, caps, builderOk)
  IN  /\ IF Negotiated(step)
         THEN /\ config_frequency' = NegotiatedRate(caps)
              /\ config_playback' = NegotiatedPlayback(caps)
         ELSE UNCHANGED << config_frequency, config_playback >>
      /\ IF step = "none"
         THEN /\ config_sidEmulation' = "builder"
              /\ downstream' = LastBuffer(downstream) \o NegotiateEvents(caps)
                                 \o StartEvents(session + 1)
              /\ total_bytes' = StartPosition(total_bytes)
              /\ task' = "started"
              /\ session' = session + 1
              /\ last' = Returned("TRUE", "none")
              /\ live_builders' = Rebuilt(live_builders, config_sidEmulation)
              /\ player_roms' = SetRoms(player_roms)
         ELSE /\ config_sidEmulation' =
                   IF step = "could_not_create_builder" THEN "NULL"
                   ELSE config_sidEmulation
              /\ live_builders' =
                   IF step = "could_not_create_builder"
                   THEN Rebuilt(live_builders, config_sidEmulation)
                   ELSE live_builders
              /\ player_roms' = player_roms
              /\ downstream' =
                   IF Negotiated(step)
                   THEN LastBuffer(downstream) \o NegotiateEvents(caps)
                   ELSE downstream
              /\ last' = Returned("FALSE", step)
              /\ UNCHANGED << total_bytes, task, session >>

\* the outcomes of the external calls of one start_play_tune: whether the
\* song is selected, whether the tune loads, the allowed caps, whether the
\* backend is valid; a call that is not reached has no outcome to choose
BuildInputs ==
  { in \in [selectOk : BOOLEAN, loadOk : BOOLEAN, caps : CapsChoices,
            builderOk : BOOLEAN] :
      /\ ~in.selectOk => in.loadOk
      /\ ~(in.selectOk /\ in.loadOk) => in.caps = NoCaps
      /\ ~NegotiateOk(in.caps) => in.builderOk }

\* gst_siddecfp_sink_event: end-of-input runs start_play_tune and returns
\* its result; every other event is accepted and changes nothing
SinkEvent(type) ==
  /\ type = "EOS" => n_eos < MaxEos
  /\ n_eos' = IF type = "EOS" THEN n_eos + 1 ELSE n_eos
  /\ IF StartsPlay(type)
     THEN \E in \in BuildInputs :
            start_play_tune(in.selectOk, in.loadOk, in.caps, in.builderOk)
     ELSE /\ last' = Returned("TRUE", "none")
          /\ UNCHANGED << total_bytes, config_frequency, config_playback,
                          config_sidEmulation, task, downstream, session,
                          live_builders, player_roms >>
  /\ UNCHANGED << tune_buffer, tune_len, blocksize, pc, out, n_iter >>

(***************************************************************************)
(* gst_siddecfp_set_property (PROP_BLOCKSIZE)                              *)
(***************************************************************************)
\* returns nothing and posts nothing
SetBlocksize(v) ==
  /\ blocksize' = v
  /\ UNCHANGED << tune_buffer, tune_len, total_bytes, config_frequency,
                  config_playback, config_sidEmulation, task, pc, out,
                  downstream, last, session, n_eos, n_iter, live_builders,
                  player_roms >>

(***************************************************************************)
(* play_loop: one iteration of the source pad's task                       *)
(***************************************************************************)
\* the sample counts player->play can return when asked for count samples:
\* all of them, or none
PlayReturns(count) == { 0, count }

\* a conversion result stored into a buffer field only when it succeeded
Stamp(r, unset) == IF r.ok THEN r.value ELSE unset

\* lines 619-637: allocate the buffer, render into it, stamp offset and
\* timestamp from the position before the iteration
Rendered(samples) ==
  [size |-> blocksize, play_bytes |-> samples * 2,
   offset |-> Stamp(Convert(total_bytes, "DEFAULT"), NONE),
   timestamp |-> Stamp(Convert(total_bytes, "TIME"), NONE),
   time |-> Stamp(Convert(total_bytes, "TIME"), 0),
   offset_end |-> NONE, duration |-> NONE, sess |-> session]

PlayLoopRenderWith(samples) ==
  /\ task = "started"
  /\ pc = "idle"
  /\ n_iter < MaxIter
  /\ n_iter' = n_iter + 1
  /\ out' = Rendered(samples)
  /\ pc' = "stamped"
  /\ UNCHANGED << tune_buffer, tune_len, total_bytes, blocksize,
                  config_frequency, config_playback, config_sidEmulation,
                  task, downstream, last, session, n_eos, live_builders,
                  player_roms >>

PlayLoopRender ==
  \E samples \in PlayReturns(blocksize \div 2) : PlayLoopRenderWith(samples)

\* the position after the iteration
Advance(total, play_bytes) == total + play_bytes

\* lines 639-651: advance the position, stamp end offset and duration
PlayLoopAdvance ==
  /\ pc = "stamped"
  /\ total_bytes' = Advance(total_bytes, out.play_bytes)
  /\ LET end == src_convert("BYTES", total_bytes', "DEFAULT", config_playback,
                            config_frequency)
         endtime == src_convert("BYTES", total_bytes', "TIME", config_playback,
                                config_frequency)
     IN  out' = [out EXCEPT !.offset_end = Stamp(end, NONE),
                            !.duration = IF endtime.ok
                                         THEN endtime.value - out.time
                                         ELSE NONE]
  /\ pc' = "push"
  /\ UNCHANGED << tune_buffer, tune_len, blocksize, config_frequency,
                  config_playback, config_sidEmulation, task, downstream,
                  last, session, n_eos, n_iter, live_builders, player_roms >>

\* the pause branch posts an error for these results of the push
IsFatal_all(ret) == ret # GST_FLOW_EOS

IsFatal(ret) == ret < GST_FLOW_EOS \/ ret = GST_FLOW_NOT_LINKED

\* the pause branch pushes an end-of-stream event for these results
SendsEos_twice(ret) == << [k |-> "eos"], [k |-> "eos"] >>

SendsEos(ret) ==
  IF ret = GST_FLOW_EOS \/ IsFatal(ret) THEN << [k |-> "eos"] >> ELSE << >>

\* the task is paused for these results of the push
Pauses_onlyeos(ret) == ret = GST_FLOW_EOS

Pauses(ret) == ret # GST_FLOW_OK

BufferOf(b) ==
  [k |-> "buffer", sess |-> b.sess, offset |-> b.offset,
   offset_end |-> b.offset_end, timestamp |-> b.timestamp,
   duration |-> b.duration]

\* lines 653-677: push the buffer; on a result other than OK post the
\* error, push end-of-stream and pause the task
Pushed(ret, log) ==
  /\ pc = "push"
  /\ downstream' = IF Pauses(ret) THEN log \o SendsEos(ret) ELSE log
  /\ task' = IF Pauses(ret) THEN "paused" ELSE task
  /\ last' = Returned("none",
                      IF Pauses(ret) /\ ret # GST_FLOW_EOS /\ IsFatal(ret)
                      THEN "flow_error" ELSE "none")
  /\ pc' = "idle"
  /\ out' = NoBuffer
  /\ UNCHANGED << tune_buffer, tune_len, total_bytes, blocksize,
                  config_frequency, config_playback, config_sidEmulation,
                  session, n_eos, n_iter, live_builders, player_roms >>

PlayLoopPushWith(ret) == Pushed(ret, Append(downstream, BufferOf(out)))

PlayLoopPush == \E ret \in FlowReturns : PlayLoopPushWith(ret)

(***************************************************************************)
(* The specification                                                       *)
(***************************************************************************)
\* what the streaming steps leave alone
aux == << roms, cycle_len, conv, answer, group, peer, build, life >>

Next ==
  \/ \E size \in ChunkSizes : Chain(size) /\ UNCHANGED aux
  \/ \E type \in SinkEventTypes : SinkEvent(type) /\ UNCHANGED aux
  \/ \E v \in BlocksizeChoices : SetBlocksize(v) /\ UNCHANGED aux
  \/ PlayLoopRender /\ UNCHANGED aux
  \/ PlayLoopAdvance /\ UNCHANGED aux
  \/ PlayLoopPush /\ UNCHANGED aux

Spec == Init /\ [][Next]_vars

(***************************************************************************)
(* The task scheduled fairly, playing a tune that ends                     *)
(***************************************************************************)
\* the position at which the emulator has rendered the whole tune
TuneBytes == 8192

\* player->play for a tune that ends: all the samples asked for before the
\* end, none from the end on
PlayReturnsUntilEnd(count) == IF total_bytes < TuneBytes THEN {count} ELSE {0}

\* the log with a buffer equal to the one before it recorded once
Observed(log, b) ==
  IF log # << >> /\ log[Len(log)] = b THEN log ELSE Append(log, b)

\* lines 619-637, the iterations not counted
TaskRender ==
  /\ task = "started"
  /\ pc = "idle"
  /\ \E samples \in PlayReturnsUntilEnd(blocksize \div 2) :
       out' = Rendered(samples)
  /\ pc' = "stamped"
  /\ UNCHANGED << tune_buffer, tune_len, total_bytes, blocksize,
                  config_frequency, config_playback, config_sidEmulation,
                  task, downstream, last, session, n_eos, n_iter,
                  live_builders, player_roms >>
  /\ UNCHANGED aux

TaskAdvance == PlayLoopAdvance /\ UNCHANGED aux

TaskPush ==
  /\ \E ret \in FlowReturns : Pushed(ret, Observed(downstream, BufferOf(out)))
  /\ UNCHANGED aux

FairNext ==
  \/ \E type \in SinkEventTypes : SinkEvent(type) /\ UNCHANGED aux
  \/ \E v \in BlocksizeChoices : SetBlocksize(v) /\ UNCHANGED aux
  \/ TaskRender
  \/ TaskAdvance
  \/ TaskPush

\* a started task calls play_loop again and again
FairSpec ==
  /\ Init
  /\ [][FairNext]_vars
  /\ WF_vars(TaskRender)
  /\ WF_vars(TaskAdvance)
  /\ WF_vars(TaskPush)

(***************************************************************************)
(* gst_siddecfp_set_property (PROP_KERNAL, PROP_BASIC, PROP_CHARGEN)       *)
(***************************************************************************)
KERNAL_SIZE == 8192
BASIC_SIZE == 8192
CHARGEN_SIZE == 4096

RomProperties == {"kernal", "basic", "chargen"}

ExpectedSize(prop) ==
  CASE prop = "kernal" -> KERNAL_SIZE
    [] prop = "basic" -> BASIC_SIZE
    [] prop = "chargen" -> CHARGEN_SIZE

\* the boxed value handed to the property: no array, or an array with its
\* contents and its length
NullArray == [id |-> "NULL", len |-> 0]
RomArrays ==
  {NullArray} \cup [id : {"A", "B"}, len : {CHARGEN_SIZE, KERNAL_SIZE}]

\* copy_byte_array: the old array is freed; the copy is made only of an
\* array of the expected size
copy_byte_array(old, src, expected_size) ==
  IF src = NullArray THEN "NULL"
  ELSE IF src.len # expected_size THEN "NULL"
  ELSE src.id

SetRom(prop, src) ==
  /\ kernal' = IF prop = "kernal"
               THEN copy_byte_array(kernal, src, KERNAL_SIZE) ELSE kernal
  /\ basic' = IF prop = "basic"
              THEN copy_byte_array(basic, src, BASIC_SIZE) ELSE basic
  /\ chargen' = IF prop = "chargen"
                THEN copy_byte_array(chargen, src, CHARGEN_SIZE) ELSE chargen
  /\ UNCHANGED << core, cycle_len, conv, answer, group, peer, build, life >>

RomNext ==
  \/ \E prop \in RomProperties : \E src \in RomArrays : SetRom(prop, src)
  \/ \E type \in SinkEventTypes : SinkEvent(type) /\ UNCHANGED aux

RomSpec == Init /\ [][RomNext]_vars

(***************************************************************************)
(* gst_siddecfp_src_query (GST_QUERY_POSITION) and gst_siddecfp_src_event, *)
(* called by downstream or the application while the decoder runs          *)
(***************************************************************************)
\* the query is answered only when the conversion succeeded
SrcQuery(format) ==
  /\ LET res == Convert(total_bytes, format)
     IN  answer' = [format |-> format, res |-> res.ok,
                    position |-> IF res.ok THEN res.value ELSE NONE]
  /\ UNCHANGED << core, roms, cycle_len, conv, group, peer, build, life >>

\* every event on the source pad is dropped and refused
SrcEvent ==
  /\ last' = Returned("FALSE", "none")
  /\ UNCHANGED << tune_buffer, tune_len, total_bytes, blocksize,
                  config_frequency, config_playback, config_sidEmulation,
                  task, pc, out, downstream, session, n_eos, n_iter,
                  live_builders, player_roms >>
  /\ UNCHANGED aux

QueryNext ==
  \/ \E type \in SinkEventTypes : SinkEvent(type) /\ UNCHANGED aux
  \/ PlayLoopRender /\ UNCHANGED aux
  \/ PlayLoopAdvance /\ UNCHANGED aux
  \/ PlayLoopPush /\ UNCHANGED aux
  \/ \E format \in ConvFormats : SrcQuery(format)
  \/ SrcEvent

QuerySpec == Init /\ [][QueryNext]_vars

\* every operation on the decoder: the two pads' handlers, the property,
\* the task
PositionNext ==
  \/ \E size \in ChunkSizes : Chain(size) /\ UNCHANGED aux
  \/ \E type \in SinkEventTypes : SinkEvent(type) /\ UNCHANGED aux
  \/ \E v \in BlocksizeChoices : SetBlocksize(v) /\ UNCHANGED aux
  \/ PlayLoopRender /\ UNCHANGED aux
  \/ PlayLoopAdvance /\ UNCHANGED aux
  \/ PlayLoopPush /\ UNCHANGED aux
  \/ \E format \in ConvFormats : SrcQuery(format)
  \/ SrcEvent

PositionSpec == Init /\ [][PositionNext]_vars

(***************************************************************************)
(* The group id of the stream-start event (siddecfp_negotiate l.558-579,   *)
(* start_play_tune l.702-704)                                              *)
(***************************************************************************)
\* upstream takes its group ids from gst_util_group_id_next below this one
MaxGroup == 3

\* have_group_id and group_id after the stream-start was built, and the id
\* gst_util_group_id_next returns next
GroupAfter_alwaysfresh(have, id, next) ==
  IF sticky.present /\ sticky.group # NONE
  THEN [have |-> TRUE, id |-> sticky.group, next |-> next]
  ELSE [have |-> TRUE, id |-> next, next |-> next + 1]

GroupAfter(have, id, next) ==
  IF sticky.present
  THEN IF sticky.group # NONE
       THEN [have |-> TRUE, id |-> sticky.group, next |-> next]
       ELSE [have |-> FALSE, id |-> NONE, next |-> next]
  ELSE IF ~have
       THEN [have |-> TRUE, id |-> next, next |-> next + 1]
       ELSE [have |-> have, id |-> id, next |-> next]

\* an end-of-input on the sink pad: start_play_tune with the group id
\* followed through the negotiation and the reset after the segment
GroupEos(in) ==
  /\ SinkEvent("EOS")
  /\ start_play_tune(in.selectOk, in.loadOk, in.caps, in.builderOk)
  /\ LET step == FailingStep(in.selectOk, in.loadOk, in.caps, in.builderOk)
         after == GroupAfter(have_group_id, group_id, next_group)
     IN  IF Negotiated(step)
         THEN /\ stream_group' = IF after.have THEN after.id ELSE NONE
              /\ next_group' = after.next
              /\ have_group_id' = IF step = "none" THEN FALSE ELSE after.have
              /\ group_id' = IF step = "none" THEN NONE ELSE after.id
         ELSE UNCHANGED << have_group_id, group_id, next_group, stream_group >>
  /\ UNCHANGED << sticky, roms, cycle_len, conv, answer, peer, build, life >>

\* a stream-start from upstream, with a group id of its own or without
\* one: the pad stores it, the handler accepts it
UpstreamStreamStart(withId) ==
  /\ SinkEvent("STREAM_START")
  /\ withId => next_group < MaxGroup
  /\ sticky' = [present |-> TRUE,
                group |-> IF withId THEN next_group ELSE NONE]
  /\ next_group' = IF withId THEN next_group + 1 ELSE next_group
  /\ UNCHANGED << have_group_id, group_id, stream_group, roms, cycle_len,
                  conv, answer, peer, build, life >>

GroupNext ==
  \/ \E in \in BuildInputs : GroupEos(in)
  \/ \E withId \in BOOLEAN : UpstreamStreamStart(withId)

GroupSpec == Init /\ [][GroupNext]_vars

(***************************************************************************)
(* The allowed caps: gst_pad_get_allowed_caps intersects what the peer of  *)
(* the source pad accepts with the source pad's template (src_templ)       *)
(***************************************************************************)
\* the structures a peer may list, in the order it lists them; 0 stands for
\* a field the peer leaves open
PeerStructures ==
  { [format |-> "U8", rate |-> 8000, channels |-> 2],
    [format |-> "S16", rate |-> 0, channels |-> 0],
    [format |-> "S16", rate |-> 8000, channels |-> 2],
    [format |-> "S16", rate |-> 96000, channels |-> 2] }

PeerCapsChoices ==
  { << >> } \cup { << a >> : a \in PeerStructures }
    \cup { << a, b >> : a \in PeerStructures, b \in PeerStructures }

\* a structure the template admits: format S16, rate 8000..48000 or not
\* fixed, one or two channels or not fixed
InTemplate(st) ==
  /\ st.format = "S16"
  /\ st.rate = 0 \/ (8000 <= st.rate /\ st.rate <= 48000)
  /\ st.channels \in {0, 1, 2}

\* allowed caps that are the peer's, whatever the template
AllowedCaps_unfiltered(caps) == caps

AllowedCaps(caps) == SelectSeq(caps, InTemplate)

\* what siddecfp_negotiate reads: the first structure of the allowed caps;
\* empty caps have no structure and so no format
FirstStructure(allowed) ==
  IF allowed = << >> THEN [format |-> "none", rate |-> 0, channels |-> 0]
  ELSE Head(allowed)

\* the source pad is linked to a peer that accepts these caps
LinkPeer(caps) ==
  /\ peer' = [linked |-> TRUE, caps |-> caps]
  /\ UNCHANGED << core, roms, cycle_len, conv, answer, group, build, life >>

\* an end-of-input whose tune selects and loads: the negotiation reads the
\* allowed caps, none when the source pad has no peer
PeerEos(builderOk) ==
  /\ SinkEvent("EOS")
  /\ start_play_tune(TRUE, TRUE,
                     IF peer.linked THEN FirstStructure(AllowedCaps(peer.caps))
                     ELSE NoCaps,
                     builderOk)
  /\ UNCHANGED aux

PeerNext ==
  \/ \E caps \in PeerCapsChoices : LinkPeer(caps)
  \/ \E builderOk \in BOOLEAN : PeerEos(builderOk)
  \/ PlayLoopRender /\ UNCHANGED aux
  \/ PlayLoopAdvance /\ UNCHANGED aux
  \/ PlayLoopPush /\ UNCHANGED aux

PeerSpec == Init /\ [][PeerNext]_vars

(***************************************************************************)
(* The configuration the backend is built with: gst_siddecfp_set_property  *)
(* (PROP_EMULATION, PROP_FILTER) and create_builder                        *)
(***************************************************************************)
Emulations == {"RESIDFP", "RESID"}

\* the filter setting create_builder applies to the backend it created:
\* rsfp->filter (false) and rs->filter (false)
BuilderFilter(variant, stored) == FALSE

\* create_builder: the backend installed before is deleted; the one created
\* is installed when it is valid
BuiltBackend(builderOk) ==
  IF builderOk
  THEN [variant |-> emulation, filter |-> BuilderFilter(emulation, filter)]
  ELSE NoBuilder

SetEmulation(e) ==
  /\ emulation' = e
  /\ UNCHANGED << core, roms, cycle_len, conv, answer, group, peer, filter,
                  builder, life >>

SetFilter(v) ==
  /\ filter' = v
  /\ UNCHANGED << core, roms, cycle_len, conv, answer, group, peer,
                  emulation, builder, life >>

\* an end-of-input on the sink pad: start_play_tune with the backend that
\* create_builder installs
BuildEos(in) ==
  /\ SinkEvent("EOS")
  /\ start_play_tune(in.selectOk, in.loadOk, in.caps, in.builderOk)
  /\ LET step == FailingStep(in.selectOk, in.loadOk, in.caps, in.builderOk)
     IN  builder' = IF step \in {"none", "could_not_create_builder"}
                    THEN BuiltBackend(in.builderOk)
                    ELSE builder
  /\ UNCHANGED << roms, cycle_len, conv, answer, group, peer, emulation,
                  filter, life >>

BuildNext ==
  \/ \E e \in Emulations : SetEmulation(e)
  \/ \E v \in BOOLEAN : SetFilter(v)
  \/ \E in \in BuildInputs : BuildEos(in)
  \/ PlayLoopRender /\ UNCHANGED aux
  \/ PlayLoopAdvance /\ UNCHANGED aux
  \/ PlayLoopPush /\ UNCHANGED aux

BuildSpec == Init /\ [][BuildNext]_vars

(***************************************************************************)
(* The lifetime of the backend and of the element: the configuration the   *)
(* emulator holds (player->config), the references taken on the element    *)
(* (gst_pad_get_parent, gst_object_unref) and gst_siddecfp_finalize        *)
(***************************************************************************)
MaxRefs == 10

\* player->config (siddecfp->config): the emulator holds the backend that
\* config.sidEmulation names
Applied(installed) == IF installed = "builder" THEN "live" ELSE "none"

\* the backend the emulator holds after start_play_tune: siddecfp_negotiate
\* applies the configuration with the backend of the session before;
\* create_builder deletes that backend and applies the configuration again
\* only when the new backend is valid
AppliedAfter(step) ==
  IF ~Negotiated(step) THEN applied
  ELSE IF step = "none" THEN "live"
  ELSE IF Applied(config_sidEmulation) = "live" THEN "released"
  ELSE "none"

\* the references one gst_siddecfp_src_convert leaves behind: the one
\* gst_pad_get_parent took, on every return path
ConvertRefs == 1

\* an end-of-input on the sink pad
LifeEos(in) ==
  /\ ~finalized
  /\ SinkEvent("EOS")
  /\ start_play_tune(in.selectOk, in.loadOk, in.caps, in.builderOk)
  /\ applied' =
       AppliedAfter(FailingStep(in.selectOk, in.loadOk, in.caps, in.builderOk))
  /\ UNCHANGED << roms, cycle_len, conv, answer, group, peer, build,
                  finalized, refcount >>

\* gst_siddecfp_set_property: the property is stored and the configuration
\* applied to the emulator
LifeSetProperty(v) ==
  /\ ~finalized
  /\ SetBlocksize(v)
  /\ applied' = Applied(config_sidEmulation)
  /\ UNCHANGED << roms, cycle_len, conv, answer, group, peer, build,
                  finalized, refcount >>

\* a position query: one conversion
LifeQuery(format) ==
  /\ ~finalized
  /\ refcount + ConvertRefs <= MaxRefs
  /\ answer' = LET r == Convert(total_bytes, format)
               IN  [format |-> format, res |-> r.ok,
                    position |-> IF r.ok THEN r.value ELSE NONE]
  /\ refcount' = refcount + ConvertRefs
  /\ UNCHANGED << core, roms, cycle_len, conv, group, peer, build, applied,
                  finalized >>

\* play_loop up to the stamps of the start: gst_pad_get_parent and two
\* conversions
LifeRender ==
  /\ ~finalized
  /\ refcount + 1 + 4 * ConvertRefs <= MaxRefs
  /\ PlayLoopRender
  /\ refcount' = refcount + 1 + 2 * ConvertRefs
  /\ UNCHANGED << roms, cycle_len, conv, answer, group, peer, build, applied,
                  finalized >>

\* the stamps of the end: two conversions
LifeAdvance ==
  /\ PlayLoopAdvance
  /\ refcount' = refcount + 2 * ConvertRefs
  /\ UNCHANGED << roms, cycle_len, conv, answer, group, peer, build, applied,
                  finalized >>

\* the push and the label done: gst_object_unref
LifePush ==
  /\ PlayLoopPush
  /\ refcount' = refcount - 1
  /\ UNCHANGED << roms, cycle_len, conv, answer, group, peer, build, applied,
                  finalized >>

\* the owner drops the last reference: the pads are deactivated, which
\* stops the task, and gst_siddecfp_finalize deletes the backend installed
\* and the emulator
Finalize ==
  /\ ~finalized
  /\ refcount = 1
  /\ pc = "idle"
  /\ finalized' = TRUE
  /\ refcount' = 0
  /\ applied' = "none"
  /\ config_sidEmulation' = "NULL"
  /\ live_builders' = IF config_sidEmulation = "builder"
                       THEN live_builders - 1 ELSE live_builders
  /\ task' = "stopped"
  /\ UNCHANGED << tune_buffer, tune_len, total_bytes, blocksize,
                  config_frequency, config_playback, pc, out, downstream,
                  last, session, n_eos, n_iter, player_roms, roms, cycle_len,
                  conv, answer, group, peer, build >>

LifeNext ==
  \/ \E in \in BuildInputs : LifeEos(in)
  \/ \E v \in BlocksizeChoices : LifeSetProperty(v)
  \/ \E format \in ConvFormats : LifeQuery(format)
  \/ LifeRender
  \/ LifeAdvance
  \/ LifePush
  \/ Finalize

LifeSpec == Init /\ [][LifeNext]_vars

(***************************************************************************)
(* Ingest cycles: the chunks handed to gst_siddecfp_chain between one      *)
(* end-of-input and the next                                               *)
(***************************************************************************)
\* cycle_len counts the bytes accepted since the last end-of-input; the
\* code keeps no such count
IngestChain(size) ==
  /\ Chain(size)
  /\ cycle_len' = cycle_len + (tune_len' - tune_len)
  /\ UNCHANGED << roms, conv, answer, group, peer, build, life >>

IngestEvent(type) ==
  /\ SinkEvent(type)
  /\ cycle_len' = IF type = "EOS" THEN 0 ELSE cycle_len
  /\ UNCHANGED << roms, conv, answer, group, peer, build, life >>

IngestNext ==
  \/ \E size \in ChunkSizes : IngestChain(size)
  \/ \E type \in SinkEventTypes : IngestEvent(type)

IngestSpec == Init /\ [][IngestNext]_vars

(***************************************************************************)
(* gst_siddecfp_src_convert called on its own                              *)
(***************************************************************************)
\* the values and configurations the converter is called with
ConvValues == {0, 1, 3, DEFAULT_BLOCKSIZE, 2 * DEFAULT_BLOCKSIZE - 1}
ConvPlaybacks == {0, MONO, STEREO}
ConvFrequencies == {0, 8000, DEFAULT_RATE, 48000}

ConvertCall(src_format, src_value, dest_format, playback, frequency) ==
  /\ LET res == src_convert(src_format, src_value, dest_format, playback,
                            frequency)
         \* the result converted back to the format it came from
         back == IF res.ok
                 THEN src_convert(dest_format, res.value, src_format,
                                  playback, frequency)
                 ELSE Failed
     IN  conv' = [src_format |-> src_format, src_value |-> src_value,
                  dest_format |-> dest_format, playback |-> playback,
                  frequency |-> frequency, ok |-> res.ok,
                  value |-> res.value, back |-> back]
  /\ UNCHANGED << core, roms, cycle_len, answer, group, peer, build, life >>

ConvertNext ==
  \E src_format \in ConvFormats : \E src_value \in ConvValues :
    \E dest_format \in ConvFormats : \E playback \in ConvPlaybacks :
      \E frequency \in ConvFrequencies :
        ConvertCall(src_format, src_value, dest_format, playback, frequency)

ConvertSpec == Init /\ [][ConvertNext]_vars

(***************************************************************************)
(* What downstream has observed                                            *)
(***************************************************************************)
Buffers(log) == { i \in 1..Len(log) : log[i].k = "buffer" }
Segments(log) == { i \in 1..Len(log) : log[i].k = "segment" }
EosEvents(log) == { i \in 1..Len(log) : log[i].k = "eos" }

Kinds(events) == [i \in 1..Len(events) |-> events[i].k]

\* a step has pushed exactly events of these kinds, in this order
Appended(old, new, kinds) ==
  /\ Len(new) = Len(old) + Len(kinds)
  /\ SubSeq(new, 1, Len(old)) = old
  /\ Kinds(SubSeq(new, Len(old) + 1, Len(new))) = kinds

\* i and j are buffers pushed one after the other: no buffer lies between
Consecutive(log, i, j) ==
  /\ i \in Buffers(log)
  /\ j \in Buffers(log)
  /\ i < j
  /\ \A m \in Buffers(log) : ~(i < m /\ m < j)

\* the first buffer of the session announced by the segment at position s
FirstBufferOf(log, s, j) ==
  /\ j \in Buffers(log)
  /\ j > s
  /\ log[j].sess = log[s].sess
  /\ \A m \in Buffers(log) : (m > s /\ m < j) => log[m].sess # log[s].sess

RECURSIVE SeqSum(_)
SeqSum(q) == IF q = << >> THEN 0 ELSE Head(q) + SeqSum(Tail(q))

(***************************************************************************)
(* Ingest                                                                  *)
(***************************************************************************)
\* C1: a chunk of size s is accepted if and only if tune_len + s is at most
\* the capacity; an accepted chunk returns OK, posts no error and grows the
\* image by exactly its s bytes; a chunk that would cross the capacity
\* returns a flow error, posts an element error and leaves length and
\* contents as they were; the length never exceeds the capacity.
C1_ChainAcceptsUpToCapacity ==
  /\ [](tune_len <= MAX_SID_TUNE_BUF_SIZE /\ SeqSum(tune_buffer) = tune_len)
  /\ [][\A size \in ChunkSizes :
          Chain(size) =>
            IF tune_len + size <= MAX_SID_TUNE_BUF_SIZE
            THEN /\ last' = Returned("GST_FLOW_OK", "none")
                 /\ tune_len' = tune_len + size
                 /\ SeqSum(tune_buffer') = SeqSum(tune_buffer) + size
                 /\ SubSeq(tune_buffer', 1, Len(tune_buffer)) = tune_buffer
            ELSE /\ last' = Returned("GST_FLOW_ERROR", "overflow")
                 /\ tune_len' = tune_len
                 /\ tune_buffer' = tune_buffer]_vars

\* the image was filled exactly to capacity and the next chunk was refused
C1_Witness ==
  /\ tune_len = MAX_SID_TUNE_BUF_SIZE
  /\ Len(tune_buffer) = 2
  /\ last = Returned("GST_FLOW_ERROR", "overflow")

\* C2: until an end-of-input event has been received nothing has been
\* pushed downstream, the task is not started and no play_loop iteration has
\* run, whatever chunks and other events the sink pad has handled.
C2_NothingBeforeEos ==
  n_eos = 0 =>
    /\ downstream = << >>
    /\ task = "stopped"
    /\ pc = "idle"
    /\ n_iter = 0
    /\ session = 0
    /\ total_bytes = 0

\* chunks were ingested and another sink event handled, no end-of-input yet
C2_Witness ==
  /\ n_eos = 0
  /\ tune_len > 0
  /\ last = Returned("TRUE", "none")

C5_FirstBufferAtZero ==
  \A s \in Segments(downstream) : \A j \in Buffers(downstream) :
    FirstBufferOf(downstream, s, j) =>
      downstream[j].offset = 0 /\ downstream[j].timestamp = 0

\* C6: of two buffers of one session pushed one after the other, the
\* first's end offset is the second's start offset.
C6_OffsetsContiguous ==
  \A i \in Buffers(downstream) : \A j \in Buffers(downstream) :
    (Consecutive(downstream, i, j) /\ downstream[i].sess = downstream[j].sess)
      => downstream[i].offset_end = downstream[j].offset

\* C7: of two buffers of one session pushed one after the other, the
\* second's start offset is greater than the first's, whatever the block
\* size, the channel count and the number of samples rendered.
C7_OffsetsStrictlyIncrease ==
  \A i \in Buffers(downstream) : \A j \in Buffers(downstream) :
    (Consecutive(downstream, i, j) /\ downstream[i].sess = downstream[j].sess)
      => downstream[i].offset < downstream[j].offset

(***************************************************************************)
(* The result of the push                                                  *)
(***************************************************************************)
\* C8: when the push returns GST_FLOW_EOS the iteration pushes exactly one
\* end-of-stream event behind the buffer, posts no error and pauses the
\* task.
C8_EosEndsGracefully ==
  [][PlayLoopPushWith(GST_FLOW_EOS) =>
       /\ Appended(downstream, downstream', << "buffer", "eos" >>)
       /\ Cardinality(EosEvents(downstream')) =
            Cardinality(EosEvents(downstream)) + 1
       /\ last'.error = "none"
       /\ task' = "paused"]_vars

\* a push has returned GST_FLOW_EOS: the log ends with the buffer and one
\* end-of-stream event, no error is posted, the task is paused
C8_Witness ==
  /\ task = "paused"
  /\ last = Returned("none", "none")
  /\ Len(downstream) >= 2
  /\ downstream[Len(downstream)].k = "eos"
  /\ downstream[Len(downstream) - 1].k = "buffer"

\* C9 as stated: every result of the push other than OK and EOS makes the
\* iteration post a flow error and push an end-of-stream event.
C9_EveryOtherResultIsFatal ==
  [][\A ret \in FlowReturns \ {GST_FLOW_OK, GST_FLOW_EOS} :
       PlayLoopPushWith(ret) =>
         /\ last'.error = "flow_error"
         /\ Appended(downstream, downstream', << "buffer", "eos" >>)]_vars

\* C9: a result of the push below GST_FLOW_EOS, or GST_FLOW_NOT_LINKED,
\* makes the iteration post a flow error and push an end-of-stream event;
\* GST_FLOW_FLUSHING and the success codes above GST_FLOW_OK pause the task
\* with no error and no end-of-stream event.
C9_FatalResults ==
  [][\A ret \in FlowReturns \ {GST_FLOW_OK, GST_FLOW_EOS} :
       PlayLoopPushWith(ret) =>
         /\ task' = "paused"
         /\ IF ret \in {GST_FLOW_NOT_LINKED, GST_FLOW_NOT_NEGOTIATED,
                        GST_FLOW_ERROR, GST_FLOW_NOT_SUPPORTED,
                        GST_FLOW_CUSTOM_ERROR}
            THEN /\ last'.error = "flow_error"
                 /\ Appended(downstream, downstream', << "buffer", "eos" >>)
            ELSE /\ last'.error = "none"
                 /\ Appended(downstream, downstream', << "buffer" >>)]_vars

\* a push has returned a fatal result: the error is posted and the log ends
\* with the buffer and the end-of-stream event
C9_Witness ==
  /\ task = "paused"
  /\ last = Returned("none", "flow_error")
  /\ Len(downstream) >= 2
  /\ downstream[Len(downstream)].k = "eos"
  /\ downstream[Len(downstream) - 1].k = "buffer"

\* C10: a push that returns anything but OK pauses the task; while the
\* task is paused no iteration is in progress, and every step leaves
\* total_bytes, the buffers pushed and the iterations run as they are,
\* except an end-of-input whose build succeeds and starts the next session.
C10_PausedUntilNextSession ==
  /\ [](task = "paused" => pc = "idle" /\ out = NoBuffer)
  /\ [][\A ret \in FlowReturns \ {GST_FLOW_OK} :
          PlayLoopPushWith(ret) => task' = "paused" /\ pc' = "idle"]_vars
  /\ [][task = "paused" =>
          \/ /\ task' = "paused"
             /\ total_bytes' = total_bytes
             /\ n_iter' = n_iter
             /\ pc' = "idle"
             /\ Cardinality(Buffers(downstream')) <=
                  Cardinality(Buffers(downstream))
          \/ /\ n_eos' = n_eos + 1
             /\ session' = session + 1
             /\ task' = "started"
             /\ total_bytes' = 0]_vars

\* the task was paused after a buffer that advanced the position, and an
\* end-of-input whose build failed has left it paused
C10_Witness ==
  /\ task = "paused"
  /\ total_bytes > 0
  /\ n_iter < MaxIter
  /\ n_eos = 2
  /\ session = 1
  /\ last.ret = "FALSE"

(***************************************************************************)
(* Termination                                                             *)
(***************************************************************************)
\* C11: with the task scheduled fairly, a session that is playing after the
\* emulator has rendered the whole tune (it returns no more samples)
\* eventually stops, even when every push returns OK.
C11_EventuallyFinished ==
  (task = "started" /\ total_bytes >= TuneBytes) ~> (task # "started")

(***************************************************************************)
(* The ROM images                                                          *)
(***************************************************************************)
\* C12: assigning an array whose length is not the expected one (8192 for
\* kernal and basic, 4096 for chargen) leaves all three stored images as
\* they were: a stored image stays stored, an absent one stays absent.
C12_MismatchKeepsRom ==
  [][\A prop \in RomProperties : \A src \in RomArrays :
       (src # NullArray /\ src.len # ExpectedSize(prop) /\ SetRom(prop, src))
         => UNCHANGED roms]_vars

(***************************************************************************)
(* The converter                                                           *)
(***************************************************************************)
\* C13: a conversion from a format to the same format (bytes, samples or
\* time) succeeds and returns the value given, for every value, every rate
\* and every channel count, a zero rate and zero bytes per sample included.
C13_SameFormatIsIdentity ==
  (conv.src_format \in {"BYTES", "DEFAULT", "TIME"}
     /\ conv.dest_format = conv.src_format)
    => conv.ok /\ conv.value = conv.src_value

\* time converted to time with no rate and no channels configured
C13_Witness ==
  /\ conv.src_format = "TIME"
  /\ conv.dest_format = "TIME"
  /\ conv.frequency = 0
  /\ conv.playback = 0
  /\ conv.src_value = DEFAULT_BLOCKSIZE
  /\ conv.ok
  /\ conv.value = DEFAULT_BLOCKSIZE

\* C14: bytes converted to time and back, for a positive value, rate and
\* channel count, give a result that is not negative and differs from the
\* value by at most the bytes of one sample (2 * channels).
C14_RoundTripWithinOneSample ==
  (conv.src_format = "BYTES" /\ conv.dest_format = "TIME"
     /\ conv.src_value > 0 /\ conv.playback > 0 /\ conv.frequency > 0)
    => /\ conv.ok
       /\ conv.back.ok
       /\ 0 <= conv.back.value
       /\ conv.src_value - conv.back.value <= 2 * conv.playback
       /\ conv.back.value - conv.src_value <= 2 * conv.playback

\* a round trip that loses a byte to the two truncating divisions
C14_Witness ==
  /\ conv.src_format = "BYTES"
  /\ conv.dest_format = "TIME"
  /\ conv.src_value = 2 * DEFAULT_BLOCKSIZE - 1
  /\ conv.playback = MONO
  /\ conv.frequency = DEFAULT_RATE
  /\ conv.ok
  /\ conv.back.ok
  /\ conv.back.value = conv.src_value - 1

(***************************************************************************)
(* Negotiation                                                             *)
(***************************************************************************)
\* C15: a negotiation that succeeds stores and announces a format, a rate
\* and a channel count that are determined by the caps downstream allows
\* alone: format S16, the rate downstream fixes or 44100, two channels
\* unless downstream fixes one or none; what the decoder held before plays
\* no part.
C15_NegotiationIsDeterministic ==
  [][n_eos' = n_eos + 1 => \A in \in BuildInputs :
       ( /\ in.caps # NoCaps
         /\ in.caps.format = "S16"
         /\ start_play_tune(in.selectOk, in.loadOk, in.caps, in.builderOk) )
       => LET rate == IF in.caps.rate = 0 THEN 44100 ELSE in.caps.rate
              channels == IF in.caps.channels \in {0, 1} THEN 1 ELSE 2
          IN  /\ config_frequency' = rate
              /\ config_playback' = channels
              /\ \E i \in 1..Len(downstream') :
                   downstream'[i] = [k |-> "caps", format |-> "S16",
                                     rate |-> rate, channels |-> channels]
              /\ \A i \in 1..Len(downstream') :
                   downstream'[i].k = "caps" =>
                     /\ downstream'[i].rate = rate
                     /\ downstream'[i].channels = channels]_vars

\* a first session played in stereo (a block of 4096 bytes ended at frame
\* 1024), and the second was negotiated with caps that fix nothing
C15_Witness ==
  /\ session = 2
  /\ config_frequency = DEFAULT_RATE
  /\ config_playback = MONO
  /\ \E i \in Buffers(downstream) :
       /\ downstream[i].sess = 1
       /\ downstream[i].offset_end = DEFAULT_BLOCKSIZE \div (2 * STEREO)

\* C16: when downstream allows no caps, or caps whose first structure has
\* no format or a format other than S16, the negotiation fails: the handler
\* returns FALSE with the negotiation error, no stream-start and no caps
\* event is pushed, the stored rate and channel count stay as they were, no
\* backend is built and the task is not started.
C16_OnlyS16IsAccepted ==
  [][n_eos' = n_eos + 1 => \A in \in BuildInputs :
       ( /\ in.selectOk
         /\ in.loadOk
         /\ (in.caps = NoCaps \/ in.caps.format # "S16")
         /\ start_play_tune(in.selectOk, in.loadOk, in.caps, in.builderOk) )
       => /\ last' = Returned("FALSE", "could_not_negotiate")
          /\ downstream' = downstream
          /\ config_frequency' = config_frequency
          /\ config_playback' = config_playback
          /\ config_sidEmulation' = config_sidEmulation
          /\ live_builders' = live_builders
          /\ player_roms' = player_roms
          /\ task' = task
          /\ session' = session
          /\ total_bytes' = total_bytes]_vars

\* after a session at 8000 Hz stereo the next negotiation failed: rate and
\* channels are still those of the first session, and no second stream was
\* announced
C16_Witness ==
  /\ last = Returned("FALSE", "could_not_negotiate")
  /\ n_eos = 2
  /\ session = 1
  /\ config_frequency = 8000
  /\ config_playback = STEREO
  /\ config_sidEmulation = "builder"
  /\ Cardinality({ i \in 1..Len(downstream) :
                     downstream[i].k = "stream-start" }) = 1

(***************************************************************************)
(* After an ingest overflow                                                *)
(***************************************************************************)
\* C17: once a chunk has been refused for overflow the stream is broken
\* for good: no later chunk is accepted, and an end-of-input that follows
\* opens no session, starts no task and pushes nothing.
C17_OverflowIsFatal ==
  [][last.error = "overflow" =>
       /\ \A size \in ChunkSizes :
            Chain(size) => last'.ret = "GST_FLOW_ERROR"
       /\ n_eos' = n_eos + 1 =>
            /\ last'.ret = "FALSE"
            /\ session' = session
            /\ task' = task
            /\ downstream' = downstream
            /\ config_sidEmulation' = config_sidEmulation]_vars

\* C18: the image is cleared when a new stream starts: the image that an
\* end-of-input hands to the tune parser holds only the bytes ingested
\* since the end-of-input before it, and each cycle has the whole capacity
\* for its chunks.
C18_ImageClearedPerCycle ==
  [][/\ n_eos' = n_eos + 1 => tune_len = cycle_len
     /\ \A size \in ChunkSizes :
          (IngestChain(size) /\ cycle_len + size <= MAX_SID_TUNE_BUF_SIZE)
            => last' = Returned("GST_FLOW_OK", "none")]_vars

(***************************************************************************)
(* The backend and the task                                                *)
(***************************************************************************)
\* C19: in every reachable state at most one backend created by
\* create_builder exists that has not been deleted, and a backend is
\* installed only if it is that one.
C19_AtMostOneBackend ==
  /\ live_builders <= 1
  /\ config_sidEmulation = "builder" => live_builders = 1

\* C20: whenever an end-of-input builds a session and starts the task, the
\* task of the session before is no longer started and none of its
\* iterations is in progress.
C20_OneTaskAtATime ==
  [][session' = session + 1 => task # "started" /\ pc = "idle"]_vars

(***************************************************************************)
(* The converter against its arithmetic                                    *)
(***************************************************************************)
\* C21: between two different formats among bytes, samples and time the
\* converter gives, with bps = 2 * channels and truncating division:
\* bytes to samples v / bps, failing when bps = 0; bytes to time
\* v * GST_SECOND / (bps * rate), failing when bps * rate = 0; samples to
\* bytes v * bps; samples to time v * GST_SECOND / rate, failing when
\* rate = 0; time to bytes v * rate * bps / GST_SECOND; time to samples
\* v * rate / GST_SECOND; a failing conversion writes no value.
C21_ConverterMatchesReference ==
  LET v == conv.src_value
      bps == 2 * conv.playback
      rate == conv.frequency
      \* v * GST_SECOND / d, the product taken in two parts
      seconds(d) == v * (GST_SECOND \div d) + (v * (GST_SECOND % d)) \div d
      from == conv.src_format
      to == conv.dest_format
      expected ==
        CASE from = "BYTES" /\ to = "DEFAULT" ->
               IF bps = 0 THEN << FALSE, NONE >> ELSE << TRUE, v \div bps >>
          [] from = "BYTES" /\ to = "TIME" ->
               IF bps * rate = 0 THEN << FALSE, NONE >>
               ELSE << TRUE, seconds(bps * rate) >>
          [] from = "DEFAULT" /\ to = "BYTES" -> << TRUE, v * bps >>
          [] from = "DEFAULT" /\ to = "TIME" ->
               IF rate = 0 THEN << FALSE, NONE >> ELSE << TRUE, seconds(rate) >>
          [] from = "TIME" /\ to = "BYTES" ->
               << TRUE, (v * rate * bps) \div GST_SECOND >>
          [] from = "TIME" /\ to = "DEFAULT" ->
               << TRUE, (v * rate) \div GST_SECOND >>
  IN  (from \in {"BYTES", "DEFAULT", "TIME"}
         /\ to \in {"BYTES", "DEFAULT", "TIME"} /\ from # to)
        => << conv.ok, conv.value >> = expected

\* 8191 ns at 48000 Hz stereo are 1 byte: 8191 * 192000 / 10^9
C21_Witness ==
  /\ conv.src_format = "TIME"
  /\ conv.dest_format = "BYTES"
  /\ conv.src_value = 2 * DEFAULT_BLOCKSIZE - 1
  /\ conv.playback = STEREO
  /\ conv.frequency = 48000
  /\ conv.ok
  /\ conv.value = 1

(***************************************************************************)
(* The position                                                            *)
(***************************************************************************)
\* C22: a position query in a format is answered with total_bytes
\* converted from bytes to that format and is not answered when the
\* conversion fails; it changes nothing in the decoder; asked in samples,
\* its answer is the end offset of the buffer stamped last in the session,
\* 0 when the session has stamped none.
C22_PositionQuery ==
  [][\A format \in ConvFormats :
       SrcQuery(format) =>
         LET r == src_convert("BYTES", total_bytes, format, config_playback,
                              config_frequency)
             mine == { i \in Buffers(downstream) :
                         downstream[i].sess = session }
             stamped ==
               IF pc = "push" THEN out.offset_end
               ELSE IF mine = {} THEN 0
               ELSE downstream[CHOOSE i \in mine :
                                 \A j \in mine : j <= i].offset_end
         IN  /\ UNCHANGED core
             /\ answer'.format = format
             /\ answer'.res = r.ok
             /\ answer'.position = (IF r.ok THEN r.value ELSE NONE)
             /\ format = "DEFAULT" => answer'.position = stamped]_vars

\* C23: from the start of a session to its terminal state total_bytes
\* never decreases: only the advance of a play_loop iteration changes it,
\* by the bytes the emulator produced; chunks, sink events that start no
\* session, source events, the blocksize property and position queries
\* leave it as it is, and it returns to 0 only when the next session starts
\* after the task has stopped.
C23_PositionMonotonic ==
  [][total_bytes' # total_bytes =>
       \/ /\ pc = "stamped"
          /\ pc' = "push"
          /\ out.play_bytes > 0
          /\ total_bytes' = total_bytes + out.play_bytes
       \/ /\ task # "started"
          /\ pc = "idle"
          /\ session' = session + 1
          /\ total_bytes' = 0]_vars

(***************************************************************************)
(* The order of the build                                                  *)
(***************************************************************************)
\* C24: the build runs song selection, load, negotiation and backend
\* construction in this order and stops at the first that fails: when
\* selection or load fails nothing is announced downstream and rate,
\* channels and backend stay as they were; when negotiation fails no
\* backend is created or deleted; the error posted is that of the step
\* that failed.
C24_BuildStepsAreGates ==
  [][n_eos' = n_eos + 1 => \A in \in BuildInputs :
       start_play_tune(in.selectOk, in.loadOk, in.caps, in.builderOk) =>
         /\ ~in.selectOk => last'.error = "could_not_select_song"
         /\ (in.selectOk /\ ~in.loadOk) => last'.error = "could_not_load"
         /\ ~(in.selectOk /\ in.loadOk) =>
              /\ downstream' = downstream
              /\ config_frequency' = config_frequency
              /\ config_playback' = config_playback
         /\ ~(in.selectOk /\ in.loadOk /\ in.caps # NoCaps
                /\ in.caps.format = "S16") =>
              /\ config_sidEmulation' = config_sidEmulation
              /\ live_builders' = live_builders
              /\ player_roms' = player_roms
              /\ task' = task
              /\ session' = session
         /\ (in.selectOk /\ in.loadOk /\ in.caps # NoCaps
               /\ in.caps.format = "S16" /\ ~in.builderOk) =>
              /\ last'.error = "could_not_create_builder"
              /\ task' = task
              /\ session' = session]_vars

\* the load failed at the second end-of-input: the stream, the rate, the
\* channels and the backend of the first session are as they were
C24_Witness ==
  /\ last = Returned("FALSE", "could_not_load")
  /\ n_eos = 2
  /\ session = 1
  /\ config_sidEmulation = "builder"
  /\ live_builders = 1
  /\ config_frequency = 8000
  /\ config_playback = STEREO
  /\ Kinds(downstream) = << "stream-start", "caps", "segment", "tag" >>

(***************************************************************************)
(* The buffers of a session in time                                        *)
(***************************************************************************)
\* C25: no buffer has a negative duration, and of two buffers of one
\* session pushed one after the other the first's timestamp plus its
\* duration is the second's timestamp.
C25_TimestampsContiguous ==
  /\ \A i \in Buffers(downstream) : downstream[i].duration >= 0
  /\ \A i \in Buffers(downstream) : \A j \in Buffers(downstream) :
       (Consecutive(downstream, i, j)
          /\ downstream[i].sess = downstream[j].sess)
         => downstream[i].timestamp + downstream[i].duration =
              downstream[j].timestamp

(***************************************************************************)
(* The backend after a session has ended                                   *)
(***************************************************************************)
\* C26: once the task has been paused by a push that did not return OK,
\* and once a build has failed, no backend is installed in the decoder's
\* configuration.
C26_TerminalTearsDown ==
  (task = "paused"
     \/ last.error \in {"could_not_select_song", "could_not_load",
                        "could_not_negotiate", "could_not_create_builder"})
    => config_sidEmulation = "NULL"

(***************************************************************************)
(* The group id of the stream-start                                        *)
(***************************************************************************)
\* C27 as stated: the stream-start pushed by every successful negotiation
\* carries a group id: that of the upstream stream-start when it has one,
\* and a freshly allocated one when there is no upstream stream-start or
\* it has no group id.
C27_StreamStartHasGroupId ==
  [][\A in \in BuildInputs :
       (GroupEos(in) /\ in.selectOk /\ in.loadOk /\ in.caps # NoCaps
          /\ in.caps.format = "S16")
       => /\ stream_group' # NONE
          /\ IF sticky.present /\ sticky.group # NONE
             THEN stream_group' = sticky.group
             ELSE stream_group' = next_group /\ next_group' = next_group + 1
     ]_vars

\* C27: the stream-start pushed by a successful negotiation carries the
\* group id of the upstream stream-start when that has one and no group id
\* when that has none; when no upstream stream-start is stored it carries a
\* freshly allocated id, or the id an earlier negotiation allocated if the
\* build failed after that negotiation.
C27_GroupIdFollowsUpstream ==
  [][\A in \in BuildInputs :
       (GroupEos(in) /\ in.selectOk /\ in.loadOk /\ in.caps # NoCaps
          /\ in.caps.format = "S16")
       => IF sticky.present THEN stream_group' = sticky.group
          ELSE IF have_group_id
               THEN stream_group' = group_id /\ group_id # NONE
          ELSE stream_group' = next_group /\ next_group' = next_group + 1
     ]_vars

\* a session was started behind an upstream stream-start without a group
\* id: no id was ever allocated and the stream-start pushed carries none
C27_Witness ==
  /\ session = 1
  /\ n_eos = 1
  /\ sticky.present
  /\ sticky.group = NONE
  /\ next_group = 1
  /\ stream_group = NONE
  /\ Len(downstream) > 0
  /\ downstream[1].k = "stream-start"

(***************************************************************************)
(* A backend that could not be built                                       *)
(***************************************************************************)
\* C28: every backend instance created and not deleted is the installed
\* one, and after a failed construction none is installed.
C28_FailedBuildReleases ==
  /\ live_builders = (IF config_sidEmulation = "builder" THEN 1 ELSE 0)
  /\ last.error = "could_not_create_builder" => config_sidEmulation = "NULL"

C30_BackendBuiltAsStored ==
  [][session' = session + 1 =>
       /\ builder'.variant = emulation
       /\ builder'.filter = filter]_vars

(***************************************************************************)
(* The position against the bytes pushed                                   *)
(***************************************************************************)
\* C31: in every iteration of the play loop the position advances by the
\* size in bytes of the buffer the iteration pushes, whatever the block
\* size and whatever sample count the emulator returned
C31_AdvanceIsBufferSize ==
  pc = "push" => out.play_bytes = out.size

(***************************************************************************)
(* The backend the emulator holds                                          *)
(***************************************************************************)
\* C32: in every state the backend named by the configuration last applied
\* to the emulator is none or a backend that is still live, also after a
\* rebuild whose construction failed and after the element was finalized
C32_NoReleasedBackend ==
  applied # "released"

(***************************************************************************)
(* The references on the element                                           *)
(***************************************************************************)
\* C33: every conversion, position query and play-loop iteration releases
\* the references it took on the element: whenever no iteration is under
\* way the only reference left is the owner's, so the element can be
\* finalized
C33_ReferenceBalance ==
  (pc = "idle" /\ ~finalized) => refcount = 1

====
